---- MODULE Spec2Model ----
(***************************************************************************)
(* Token-budgeted truncation of search results (src/utils/token_utils.py)  *)
(* and the web-search wrapper that renders the results and applies it      *)
(* (src/tools/search.py).                                                  *)
(*                                                                         *)
(* A text is a sequence of Unicode code points, so len(), slicing, rfind   *)
(* and concatenation are computed character by character as Python does.   *)
(***************************************************************************)
EXTENDS Integers, Sequences, FiniteSets, TLC

----------------------------------------------------------------------------
(* Bounds of the checked input space *)

\* longest text handed directly to truncate_text_by_tokens
MaxLen == 24
\* largest of the small budgets (budgets range over -1..MaxTokens)
MaxTokens == 5
\* longest record list handed to truncate_search_results
MaxRecords == 3
\* length of the long record content (more than 100 tokens)
LongLen == 420

----------------------------------------------------------------------------
(* Characters *)

SPACE == 32
NL == 10
HASH == 35

\* "\n\n[内容因token限制被截断...]"
Marker ==
  <<10, 10, 91, 20869, 23481, 22240, 116, 111, 107, 101, 110,
    38480, 21046, 34987, 25130, 26029, 46, 46, 46, 93>>

\* the separator of "\n\n".join(...) and of the rendered block
Separator == <<NL, NL>>

NoTitle == <<78, 111, 32, 84, 105, 116, 108, 101>>
NoContent == <<78, 111, 32, 99, 111, 110, 116, 101, 110, 116>>
EmptyStr == <<>>

\* "Search error: 'str' object has no attribute 'get'"
SearchError ==
  <<83, 101, 97, 114, 99, 104, 32, 101, 114, 114, 111, 114, 58, 32,
    39, 115, 116, 114, 39, 32, 111, 98, 106, 101, 99, 116, 32, 104, 97,
    115, 32, 110, 111, 32, 97, 116, 116, 114, 105, 98, 117, 116, 101,
    32, 39, 103, 101, 116, 39>>

----------------------------------------------------------------------------
(* Python string primitives *)

Min(a, b) == IF a <= b THEN a ELSE b

\* s[:n] for n >= 0
Prefix(s, n) == SubSeq(s, 1, Min(n, Len(s)))

RECURSIVE rfindFrom(_, _, _)
rfindFrom(s, ch, k) ==
  IF k = 0 THEN -1
  ELSE IF s[k] = ch THEN k - 1
  ELSE rfindFrom(s, ch, k - 1)

\* s.rfind(ch): 0-based index of the last occurrence, -1 when absent
rfind(s, ch) == rfindFrom(s, ch, Len(s))

\* s.endswith(suffix)
EndsWith(s, suffix) ==
  /\ Len(s) >= Len(suffix)
  /\ SubSeq(s, Len(s) - Len(suffix) + 1, Len(s)) = suffix

RECURSIVE Join(_, _)
\* sep.join(pieces)
Join(sep, pieces) ==
  IF Len(pieces) = 0 THEN EmptyStr
  ELSE IF Len(pieces) = 1 THEN pieces[1]
  ELSE pieces[1] \o sep \o Join(sep, Tail(pieces))

----------------------------------------------------------------------------
(* token_utils.py *)

estimate_tokens(text) ==
  IF Len(text) = 0 THEN 0 ELSE Len(text) \div 4

\* variant: the threshold comparison made inclusive
BackOffInclusive(last_space, char_limit) == 5 * last_space >= 4 * char_limit

\* last_space > char_limit * 0.8   (0.8 = 4/5; the float product is exact
\* enough that the comparison agrees with 5 * last_space > 4 * char_limit)
BackOff(last_space, char_limit) == 5 * last_space > 4 * char_limit

\* variant: the token comparison of the fast path is dropped, so that
\* len(text) > char_limit alone decides whether the text is cut
truncate_text_no_fast_path(text, max_tokens) ==
  IF Len(text) = 0 \/ max_tokens <= 0 THEN EmptyStr
  ELSE LET char_limit == max_tokens * 4 IN
       IF Len(text) > char_limit
       THEN LET truncated == Prefix(text, char_limit)
                last_space == rfind(truncated, SPACE)
                kept == IF BackOff(last_space, char_limit)
                        THEN Prefix(truncated, last_space)
                        ELSE truncated
            IN kept \o Marker
       ELSE text

\* variant: the slice keeps one character too many (text[:char_limit + 1])
truncate_text_off_by_one(text, max_tokens) ==
  IF Len(text) = 0 \/ max_tokens <= 0 THEN EmptyStr
  ELSE IF estimate_tokens(text) <= max_tokens THEN text
  ELSE LET char_limit == max_tokens * 4 IN
       IF Len(text) > char_limit
       THEN LET truncated == Prefix(text, char_limit + 1)
                last_space == rfind(truncated, SPACE)
                kept == IF BackOff(last_space, char_limit)
                        THEN Prefix(truncated, last_space)
                        ELSE truncated
            IN kept \o Marker
       ELSE text

truncate_text_by_tokens(text, max_tokens) ==
  IF Len(text) = 0 \/ max_tokens <= 0 THEN EmptyStr
  ELSE IF estimate_tokens(text) <= max_tokens THEN text
  ELSE LET char_limit == max_tokens * 4 IN
       IF Len(text) > char_limit
       THEN LET truncated == Prefix(text, char_limit)
                last_space == rfind(truncated, SPACE)
                kept == IF BackOff(last_space, char_limit)
                        THEN Prefix(truncated, last_space)
                        ELSE truncated
            IN kept \o Marker
       ELSE text

\* a search result: a dict with some of the keys title/content/snippet, or a
\* non-dict element (a string)
DictRecord(keys, title, content, snippet) ==
  [dict |-> TRUE, keys |-> keys, title |-> title, content |-> content,
   snippet |-> snippet, str |-> EmptyStr]

StrRecord(s) ==
  [dict |-> FALSE, keys |-> {}, title |-> EmptyStr, content |-> EmptyStr,
   snippet |-> EmptyStr, str |-> s]

\* result.get(key, default)
Get(result, key, default) ==
  IF key \in result.keys THEN result[key] ELSE default

\* f"## {title}\n\n{content}" with the defaults of truncate_search_results,
\* str(result) for a non-dict element
result_text(result) ==
  IF result.dict
  THEN <<HASH, HASH, SPACE>> \o Get(result, "title", EmptyStr)
       \o Separator \o Get(result, "content", EmptyStr)
  ELSE result.str

\* variant: a result that lands exactly on the limit is refused
WouldExceedInclusive(current, result_tokens, max) ==
  current + result_tokens >= max

\* current_tokens + result_tokens > max_tokens
WouldExceed(current, result_tokens, max) == current + result_tokens > max

\* variant: exactly 100 remaining tokens already count as reasonable space
ReasonableSpaceInclusive(remaining_tokens) == remaining_tokens >= 100

\* remaining_tokens > 100
ReasonableSpace(remaining_tokens) == remaining_tokens > 100

\* the argument of truncate_search_results: a string or a list of results
RawText(s) == [tag |-> "str", s |-> s, l |-> <<>>]
RecordList(l) == [tag |-> "list", s |-> EmptyStr, l |-> l]

\* Python truthiness of the argument: "" and [] are falsy
Falsy(v) == IF v.tag = "str" THEN Len(v.s) = 0 ELSE Len(v.l) = 0

----------------------------------------------------------------------------
(* search.py *)

\* f"## {elem.get('title', 'No Title')}\n\n
\*    {elem.get('content', elem.get('snippet', 'No content'))}"
web_result_text(elem) ==
  <<HASH, HASH, SPACE>> \o Get(elem, "title", NoTitle) \o Separator
  \o Get(elem, "content", Get(elem, "snippet", NoContent))

\* elem.get raises AttributeError on an element that is not a dict
RendersCleanly(v) ==
  v.tag = "list" => \A k \in 1..Len(v.l) : v.l[k].dict

results_text(v) ==
  IF v.tag = "list"
  THEN Join(Separator, [k \in 1..Len(v.l) |-> web_result_text(v.l[k])])
  ELSE v.s

----------------------------------------------------------------------------
(* Inputs *)

\* n times the letter x
Solid(n) == [k \in 1..n |-> 120]

\* "aaaa aaaa aaaa ..." cut to n characters
Words(n) == [k \in 1..n |-> IF k % 5 = 0 THEN SPACE ELSE 97]

\* n characters with spaces at the 0-based indexes of S
TextOf(n, S) == [k \in 1..n |-> IF (k - 1) \in S THEN SPACE ELSE 120]

\* every text of at most MaxLen characters with at most two spaces
Texts ==
  {TextOf(n, {}) : n \in 0..MaxLen}
  \cup UNION {{TextOf(n, {a, b}) : a, b \in 0..(n - 1)} : n \in 1..MaxLen}

TextBudgets == -1..MaxTokens

TitleA == <<65>>
TitleB == <<66>>

Records ==
  { DictRecord({"title", "content"}, TitleA, Solid(1), EmptyStr),
    DictRecord({"title", "content"}, TitleB, Words(50), EmptyStr),
    DictRecord({"title", "content"}, TitleA, Words(LongLen), EmptyStr),
    DictRecord({"content"}, EmptyStr, Solid(1), EmptyStr),
    DictRecord({"title", "snippet"}, TitleB, EmptyStr, <<115>>),
    DictRecord({}, EmptyStr, EmptyStr, EmptyStr),
    StrRecord(<<114, 97, 119>>) }

RecordLists == UNION {[1..n -> Records] : n \in 0..MaxRecords}

RawTexts == {RawText(Solid(n)) : n \in {0, 1, 23, 24}}
            \cup {RawText(Words(n)) : n \in {24, LongLen}}

ResultBudgets == {-1, 0, 1, 2, 5, 15, 20, 101, 103}

----------------------------------------------------------------------------
(* State *)

VARIABLES
  call,               \* the function the caller invoked
  text,               \* argument of truncate_text_by_tokens
  results,            \* what base_tool.invoke returned (truncated_web_search)
  search_results,     \* argument of truncate_search_results
  max_tokens,         \* the budget argument
  combined_results,   \* pieces accumulated by the loop
  current_tokens,     \* running token total of the loop
  i,                  \* 1-based position of the loop in search_results
  final_text,         \* the joined / converted text before the last pass
  pc,                 \* position of the call
  ret,                \* returned string
  prev                \* the previous return value, when the caller re-truncates

vars == <<call, text, results, search_results, max_tokens, combined_results,
          current_tokens, i, final_text, pc, ret, prev>>

Locals ==
  /\ combined_results = <<>>
  /\ current_tokens = 0
  /\ i = 1
  /\ final_text = EmptyStr
  /\ ret = EmptyStr
  /\ prev = EmptyStr

InitText ==
  /\ call = "truncate_text_by_tokens"
  /\ text \in Texts
  /\ max_tokens \in TextBudgets
  /\ results = RawText(EmptyStr)
  /\ search_results = RawText(EmptyStr)
  /\ pc = "call"
  /\ Locals

InitResults ==
  /\ call = "truncate_search_results"
  /\ text = EmptyStr
  /\ max_tokens \in ResultBudgets
  /\ results = RawText(EmptyStr)
  /\ search_results \in {RecordList(l) : l \in RecordLists} \cup RawTexts
  /\ pc = "entry"
  /\ Locals

InitWeb ==
  /\ call = "truncated_web_search"
  /\ text = EmptyStr
  /\ max_tokens \in ResultBudgets
  /\ results \in {RecordList(l) : l \in RecordLists} \cup RawTexts
  /\ search_results = RawText(EmptyStr)
  /\ pc = "call"
  /\ Locals

Init == InitText \/ InitResults \/ InitWeb

----------------------------------------------------------------------------
(* Direct calls of truncate_text_by_tokens *)

TruncateText ==
  /\ pc = "call"
  /\ call = "truncate_text_by_tokens"
  /\ ret' = truncate_text_by_tokens(text, max_tokens)
  /\ pc' = "done"
  /\ UNCHANGED <<call, text, results, search_results, max_tokens,
                 combined_results, current_tokens, i, final_text, prev>>

\* the caller passes the returned string through the function once more
TruncateAgain ==
  /\ pc = "done"
  /\ call = "truncate_text_by_tokens"
  /\ prev' = ret
  /\ ret' = truncate_text_by_tokens(ret, max_tokens)
  /\ pc' = "redone"
  /\ UNCHANGED <<call, text, results, search_results, max_tokens,
                 combined_results, current_tokens, i, final_text>>

----------------------------------------------------------------------------
(* truncate_search_results *)

\* if not search_results: return ""
ReturnEmpty ==
  /\ pc = "entry"
  /\ Falsy(search_results)
  /\ ret' = EmptyStr
  /\ pc' = "done"
  /\ UNCHANGED <<call, text, results, search_results, max_tokens,
                 combined_results, current_tokens, i, final_text, prev>>

\* isinstance(search_results, list): combined_results = [], current_tokens = 0
StartLoop ==
  /\ pc = "entry"
  /\ ~Falsy(search_results)
  /\ search_results.tag = "list"
  /\ combined_results' = <<>>
  /\ current_tokens' = 0
  /\ i' = 1
  /\ pc' = "loop"
  /\ UNCHANGED <<call, text, results, search_results, max_tokens,
                 final_text, ret, prev>>

\* else: final_text = str(search_results)
ConvertString ==
  /\ pc = "entry"
  /\ ~Falsy(search_results)
  /\ search_results.tag = "str"
  /\ final_text' = search_results.s
  /\ pc' = "final"
  /\ UNCHANGED <<call, text, results, search_results, max_tokens,
                 combined_results, current_tokens, i, ret, prev>>

\* one iteration in which the result fits: append the block and go on
LoopAppend ==
  /\ pc = "loop"
  /\ LET block == result_text(search_results.l[i])
         result_tokens == estimate_tokens(block)
     IN /\ ~WouldExceed(current_tokens, result_tokens, max_tokens)
        /\ combined_results' = Append(combined_results, block)
        /\ current_tokens' = current_tokens + result_tokens
  /\ i' = i + 1
  /\ pc' = IF i + 1 > Len(search_results.l) THEN "join" ELSE "loop"
  /\ UNCHANGED <<call, text, results, search_results, max_tokens,
                 final_text, ret, prev>>

\* the iteration in which the result would exceed the limit: append a
\* truncated version if remaining_tokens > 100, then break (i stays on the
\* result that broke the loop)
LoopBreak ==
  /\ pc = "loop"
  /\ LET block == result_text(search_results.l[i])
         result_tokens == estimate_tokens(block)
         remaining_tokens == max_tokens - current_tokens
     IN /\ WouldExceed(current_tokens, result_tokens, max_tokens)
        /\ combined_results' =
             IF ReasonableSpace(remaining_tokens)
             THEN Append(combined_results,
                         truncate_text_by_tokens(block, remaining_tokens))
             ELSE combined_results
  /\ pc' = "join"
  /\ UNCHANGED <<call, text, results, search_results, max_tokens,
                 current_tokens, i, final_text, ret, prev>>

\* final_text = "\n\n".join(combined_results)
JoinResults ==
  /\ pc = "join"
  /\ final_text' = Join(Separator, combined_results)
  /\ pc' = "final"
  /\ UNCHANGED <<call, text, results, search_results, max_tokens,
                 combined_results, current_tokens, i, ret, prev>>

\* return truncate_text_by_tokens(final_text, max_tokens)
FinalTruncation ==
  /\ pc = "final"
  /\ ret' = truncate_text_by_tokens(final_text, max_tokens)
  /\ pc' = "done"
  /\ UNCHANGED <<call, text, results, search_results, max_tokens,
                 combined_results, current_tokens, i, final_text, prev>>

----------------------------------------------------------------------------
(* truncated_web_search *)

\* render the tool's results to one string and hand it to
\* truncate_search_results(results_text, max_token_limit)
WebSearchRender ==
  /\ pc = "call"
  /\ call = "truncated_web_search"
  /\ RendersCleanly(results)
  /\ search_results' = RawText(results_text(results))
  /\ pc' = "entry"
  /\ UNCHANGED <<call, text, results, max_tokens, combined_results,
                 current_tokens, i, final_text, ret, prev>>

\* except Exception as e: return f"Search error: {str(e)}"
WebSearchError ==
  /\ pc = "call"
  /\ call = "truncated_web_search"
  /\ ~RendersCleanly(results)
  /\ ret' = SearchError
  /\ pc' = "done"
  /\ UNCHANGED <<call, text, results, search_results, max_tokens,
                 combined_results, current_tokens, i, final_text, prev>>

----------------------------------------------------------------------------

Next ==
  \/ TruncateText
  \/ TruncateAgain
  \/ ReturnEmpty
  \/ StartLoop
  \/ ConvertString
  \/ LoopAppend
  \/ LoopBreak
  \/ JoinResults
  \/ FinalTruncation
  \/ WebSearchRender
  \/ WebSearchError

Spec == Init /\ [][Next]_vars

----------------------------------------------------------------------------
(* Vocabulary of the properties *)

MarkerLen == Len(Marker)

\* ret is what truncate_text_by_tokens or truncate_search_results returned
TruncateReturned ==
  /\ pc \in {"done", "redone"}
  /\ call = "truncated_web_search" => RendersCleanly(results)

\* a direct call of truncate_search_results on a non-empty list
ListCall == search_results.tag = "list" /\ ~Falsy(search_results)

\* the rendered block of every record, in input order
AllBlocks ==
  [k \in 1..Len(search_results.l) |-> result_text(search_results.l[k])]

RECURSIVE PrefixTokens(_)
\* sum of the estimated tokens of the first k blocks
PrefixTokens(k) ==
  IF k = 0 THEN 0 ELSE PrefixTokens(k - 1) + estimate_tokens(AllBlocks[k])

\* the first record whose block makes the running total exceed the budget
\* (0 when there is none)
FirstOver ==
  LET over == {k \in 1..Len(search_results.l) : PrefixTokens(k) > max_tokens}
  IN IF over = {} THEN 0
     ELSE CHOOSE k \in over : \A j \in over : k <= j

\* the whole input content as one string
Original ==
  IF call = "truncate_text_by_tokens" THEN text
  ELSE IF search_results.tag = "list" THEN Join(Separator, AllBlocks)
  ELSE search_results.s

\* the TextBlock of the data model: "## {title}\n\n{content}", title
\* defaulting to "No Title", content to snippet and then to "No content"
TextBlock(r) ==
  <<HASH, HASH, SPACE>>
  \o (IF "title" \in r.keys THEN r.title ELSE NoTitle)
  \o Separator
  \o (IF "content" \in r.keys THEN r.content
      ELSE IF "snippet" \in r.keys THEN r.snippet ELSE NoContent)

\* 0-based index of the last space in the first 4 * max_tokens characters
LastSpaceInLimit == rfind(Prefix(text, 4 * max_tokens), SPACE)

\* a direct call of truncate_text_by_tokens that had to cut
TextCut ==
  /\ call = "truncate_text_by_tokens"
  /\ pc = "done"
  /\ max_tokens > 0
  /\ estimate_tokens(text) > max_tokens

----------------------------------------------------------------------------
(* C1 *)

\* C1: for every budget b > 0 the estimated token count of the string
\* returned by truncate_text_by_tokens and by truncate_search_results is at
\* most b (the marker and the final pass do not push it over the budget).
C1_BudgetInvariant ==
  (TruncateReturned /\ max_tokens > 0) => estimate_tokens(ret) <= max_tokens

----------------------------------------------------------------------------
(* C2 *)

\* C2: for positive budgets, the returned string ends with the truncation
\* marker whenever part of the input content is missing from it (a cut
\* inside a text or a record dropped whole), and carries no marker when
\* nothing was cut.
C2_MarkerIffCut ==
  (TruncateReturned /\ pc = "done" /\ max_tokens > 0) =>
     /\ ret # Original => EndsWith(ret, Marker)
     /\ ret = Original => ~EndsWith(ret, Marker)

----------------------------------------------------------------------------
(* C3 *)

\* C3: truncate_search_results returns a non-empty string for every
\* non-empty input and every budget b > 0.
C3_NonEmptyOutput ==
  (pc = "done" /\ call = "truncate_search_results"
     /\ ~Falsy(search_results) /\ max_tokens > 0)
  => ret # EmptyStr

----------------------------------------------------------------------------
(* C4 *)

\* C4 as stated: for all texts t and all budgets b with
\* estimate_tokens(t) <= b, truncate_text_by_tokens(t, b) returns t.
C4_FastPathAllBudgets ==
  (call = "truncate_text_by_tokens" /\ pc = "done"
     /\ estimate_tokens(text) <= max_tokens)
  => ret = text

\* C4 amended: for all texts t and all budgets b > 0 with
\* estimate_tokens(t) <= b, truncate_text_by_tokens(t, b) returns t
\* unchanged (same characters, no marker).
C4_FastPath ==
  (call = "truncate_text_by_tokens" /\ pc = "done" /\ max_tokens > 0
     /\ estimate_tokens(text) <= max_tokens)
  => ret = text

\* a text longer than 4 * b characters that still estimates to b tokens
\* came back unchanged
C4_Witness ==
  /\ call = "truncate_text_by_tokens" /\ pc = "done" /\ max_tokens > 0
  /\ estimate_tokens(text) <= max_tokens
  /\ Len(text) > 4 * max_tokens
  /\ ret = text

----------------------------------------------------------------------------
(* C5 *)

\* C5: truncating the result of truncate_text_by_tokens a second time with
\* the same budget returns it unchanged (no further cut, no second marker).
C5_RepeatedStable == pc = "redone" => ret = prev

----------------------------------------------------------------------------
(* C6 *)

\* C6: every record that truncate_search_results renders in full is
\* rendered as "## {title}\n\n{content}" with a missing title as "No Title"
\* and a missing content as snippet, else "No content".
C6_RecordDefaults ==
  (call = "truncate_search_results" /\ search_results.tag = "list") =>
     \A j \in 1..Len(combined_results) :
        (j < i /\ search_results.l[j].dict)
        => combined_results[j] = TextBlock(search_results.l[j])

----------------------------------------------------------------------------
(* C7 *)

\* C7 as stated: when every block passes the running-total check (the sum
\* of the blocks' estimated tokens is <= b, b > 0), the returned string is
\* exactly all blocks joined by a blank line.
C7_AllFitUnconditional ==
  (pc = "done" /\ ListCall /\ max_tokens > 0
     /\ PrefixTokens(Len(search_results.l)) <= max_tokens)
  => ret = Join(Separator, AllBlocks)

\* C7 amended: when every block passes the running-total check (b > 0) and
\* the joined string itself estimates to at most b tokens, the returned
\* string is exactly all blocks in input order joined by a blank line, with
\* no marker and no character removed.
C7_AllFit ==
  (pc = "done" /\ ListCall /\ max_tokens > 0
     /\ PrefixTokens(Len(search_results.l)) <= max_tokens
     /\ estimate_tokens(Join(Separator, AllBlocks)) <= max_tokens)
  => ret = Join(Separator, AllBlocks)

\* three records that all fit came back joined by blank lines, unmarked
C7_Witness ==
  /\ pc = "done" /\ ListCall /\ max_tokens > 0
  /\ Len(search_results.l) = 3
  /\ current_tokens > 0
  /\ PrefixTokens(Len(search_results.l)) <= max_tokens
  /\ estimate_tokens(Join(Separator, AllBlocks)) <= max_tokens
  /\ ret = Join(Separator, AllBlocks)
  /\ ~EndsWith(ret, Marker)

----------------------------------------------------------------------------
(* C8 *)

\* C8: for every budget b > 0 the string returned by
\* truncate_text_by_tokens and by truncate_search_results has at most
\* 4 * b + 20 characters, i.e. at most b + 5 estimated tokens.
C8_BoundedOvershoot ==
  (TruncateReturned /\ max_tokens > 0) =>
     /\ Len(ret) <= 4 * max_tokens + MarkerLen
     /\ estimate_tokens(ret) <= max_tokens + 5

\* a record list whose output reaches the bound exactly
C8_Witness ==
  /\ pc = "done" /\ ListCall /\ max_tokens > 0
  /\ Len(ret) = 4 * max_tokens + MarkerLen
  /\ EndsWith(ret, Marker)

----------------------------------------------------------------------------
(* C9 *)

\* C9 as stated: when the text is cut, the part before the marker is the
\* prefix ending just before the last space of the first charLimit
\* characters if that space's index is >= 0.8 * charLimit, and the first
\* charLimit characters otherwise.
C9_BackOffInclusive ==
  TextCut =>
    ret = (IF 5 * LastSpaceInLimit >= 4 * (4 * max_tokens)
           THEN Prefix(text, LastSpaceInLimit)
           ELSE Prefix(text, 4 * max_tokens)) \o Marker

\* C9 amended: when the text is cut, the part before the marker is the
\* prefix ending just before the last space of the first charLimit
\* characters if that space's index is strictly greater than
\* 0.8 * charLimit, and the first charLimit characters otherwise (also
\* when the index equals 0.8 * charLimit).
C9_BackOffStrict ==
  TextCut =>
    ret = (IF 5 * LastSpaceInLimit > 4 * (4 * max_tokens)
           THEN Prefix(text, LastSpaceInLimit)
           ELSE Prefix(text, 4 * max_tokens)) \o Marker

\* the last space sits exactly on 0.8 * charLimit and the cut is the hard
\* character cut
C9_Witness ==
  /\ TextCut
  /\ LastSpaceInLimit >= 0
  /\ 5 * LastSpaceInLimit = 4 * (4 * max_tokens)
  /\ ret = Prefix(text, 4 * max_tokens) \o Marker

----------------------------------------------------------------------------
(* C10 *)

\* the pieces the loop has accumulated, by position of the call
C10_Pieces ==
  LET n == Len(search_results.l)
      k == FirstOver
      remaining == max_tokens - PrefixTokens(k - 1)
  IN /\ pc = "loop" =>
          /\ i <= n
          /\ k = 0 \/ i <= k
          /\ combined_results = SubSeq(AllBlocks, 1, i - 1)
          /\ current_tokens = PrefixTokens(i - 1)
     /\ pc \in {"join", "final", "done"} =>
          IF k = 0
          THEN /\ combined_results = AllBlocks
               /\ current_tokens = PrefixTokens(n)
          ELSE /\ i = k
               /\ current_tokens = PrefixTokens(k - 1)
               /\ combined_results =
                    SubSeq(AllBlocks, 1, k - 1)
                    \o (IF remaining > 100
                        THEN <<truncate_text_by_tokens(AllBlocks[k], remaining)>>
                        ELSE <<>>)

\* C10 as stated: the accumulated pieces are the full blocks before the
\* first record k that exceeds the budget, in input order, followed by
\* truncate_text_by_tokens(block_k, remaining) iff remaining > 100; nothing
\* after k contributes; the running total never exceeds maxTokens.
C10_AccumulationAnyBudget ==
  (call = "truncate_search_results" /\ ListCall /\ pc # "entry") =>
     /\ C10_Pieces
     /\ current_tokens <= max_tokens

\* C10 amended: as stated, the running total never exceeding maxTokens
\* whenever maxTokens >= 0 (for a negative budget it stays at its initial 0).
C10_Accumulation ==
  (call = "truncate_search_results" /\ ListCall /\ pc # "entry") =>
     /\ C10_Pieces
     /\ max_tokens >= 0 => current_tokens <= max_tokens

\* the second of three records broke the loop with more than 100 tokens
\* remaining: one full block and one truncated block were kept, the third
\* record was dropped
C10_Witness ==
  /\ call = "truncate_search_results" /\ ListCall
  /\ pc = "join"
  /\ Len(search_results.l) = 3
  /\ i = 2
  /\ max_tokens - current_tokens > 100
  /\ Len(combined_results) = 2
  /\ combined_results[1] = AllBlocks[1]
  /\ EndsWith(combined_results[2], Marker)

====
